---------------------------- MODULE Spec2Model ----------------------------
(***************************************************************************)
(* A model of the portfolio-interaction scripts: the bouncing-ball physics *)
(* toy (two variants of the same script), and the reveal-on-scroll         *)
(* initialisation.                                                         *)
(*                                                                         *)
(* Numbers.  The scripts compute in IEEE doubles; the model computes in    *)
(* fixed point:                                                            *)
(*   positions and velocities   in 1/100 px         (PX   = 100)           *)
(*   the normalised time delta  in 1/1000 frame     (DTU  = 1000)          *)
(*   unit vectors and factors   in 1/10000          (UNIT = 10000)         *)
(*   restitution factors        in 1/100                                   *)
(*   time stamps                in whole milliseconds                      *)
(* Every quotient truncates toward zero (Div), so that negating the inputs *)
(* of a computation negates its result, as it does for doubles.            *)
(***************************************************************************)
EXTENDS Integers, Sequences, FiniteSets, TLC

VARIABLES
    variant,            \* 1 or 2: which of the two scripts is loaded
    balls,              \* the tracking collection `balls`, a sequence of ball records
    dom,                \* ids of the ball elements attached to the document
    removeTimers,       \* pending setTimeout callbacks that detach an element:
                        \* a sequence of [id, due], in the order they were set
    animating,          \* the flag `animating`
    rafPending,         \* number of animateAll callbacks requestAnimationFrame holds
    lastTime,           \* the variable `lastTime`
    now,                \* time stamp of the latest frame callback (ms)
    nextId,             \* number of balls created so far (element identity)
    obstacleCache,      \* variant 2: `obstacleCache`
    obstacleCacheTime,  \* variant 2: `obstacleCacheTime`
    env,                \* the page: viewport, scroll offset, obstacle elements, cursor
    hist,               \* what the last handler did (observation only)
    call,               \* a single call of a collision routine: its input and output
    maskCache,          \* variant 2: `maskCache`, by mask element (<< >> for absent)
    reveal,             \* the reveal-on-scroll script: elements, observer, classes
    contact,            \* the contact form: button, fields, pending fetches and timers
    scene               \* project.js: the scroll throttle and what the last update read

vars == <<variant, balls, dom, removeTimers, animating, rafPending, lastTime, now,
          nextId, obstacleCache, obstacleCacheTime, env, hist, call, maskCache, reveal, contact, scene>>

ballVars == <<variant, balls, dom, removeTimers, animating, rafPending, lastTime, now,
              nextId, obstacleCache, obstacleCacheTime, env, hist, maskCache>>

---------------------------------------------------------------------------
(* Scales of the fixed-point representation. *)

PX == 100
DTU == 1000
UNIT == 10000

(* Program constants of variant 1 (scaled as above). *)
maxBalls1 == 20
gravity1 == 60
airResistance1 == 9920
bounceFactor1 == 45
ballBounceFactor1 == 35
ballRadius1 == 1000
stopVelocity1 == 20
maxVelocity1 == 3000

(* Program constants of variant 2. *)
maxBalls2 == 15
gravity2 == 70
airResistance2 == 9950
bounceFactor2 == 60
ballBounceFactor2 == 50
ballRadius2 == 1200
stopVelocity2 == 15
maxVelocity2 == 3500
magneticRadius == 15000
magneticStrength == 30
maskAlphaThreshold == 10
obstacleCacheDuration == 100
restTimeout == 3000
spinTransfer == 500

maxBalls(v) == IF v = 1 THEN maxBalls1 ELSE maxBalls2
gravity(v) == IF v = 1 THEN gravity1 ELSE gravity2
airResistance(v) == IF v = 1 THEN airResistance1 ELSE airResistance2
bounceFactor(v) == IF v = 1 THEN bounceFactor1 ELSE bounceFactor2
ballBounceFactor(v) == IF v = 1 THEN ballBounceFactor1 ELSE ballBounceFactor2
ballRadius(v) == IF v = 1 THEN ballRadius1 ELSE ballRadius2
stopVelocity(v) == IF v = 1 THEN stopVelocity1 ELSE stopVelocity2
maxVelocity(v) == IF v = 1 THEN maxVelocity1 ELSE maxVelocity2

---------------------------------------------------------------------------
(* Arithmetic. *)

Abs(a) == IF a < 0 THEN -a ELSE a

Min(a, b) == IF a < b THEN a ELSE b

Max(a, b) == IF a > b THEN a ELSE b

Sign(a) == IF a < 0 THEN -1 ELSE IF a > 0 THEN 1 ELSE 0

\* Quotient truncated toward zero.
Div(a, b) == IF a >= 0 THEN a \div b ELSE -((-a) \div b)

\* A function on 1..n as the sequence of its values.
AsSeq(f) == SubSeq(f, 1, Len(f))

RECURSIVE SqrtSearch(_, _, _)
SqrtSearch(n, lo, hi) ==
    IF lo >= hi THEN lo
    ELSE LET mid == (lo + hi + 1) \div 2
         IN  IF mid * mid <= n THEN SqrtSearch(n, mid, hi)
                               ELSE SqrtSearch(n, lo, mid - 1)

\* Math.sqrt: the integer part of the square root, for 0 <= n < 2^31.
Sqrt(n) == SqrtSearch(n, 0, 46340)

\* Math.hypot(a, b), for |a|, |b| <= 30000.
Hypot(a, b) == Sqrt(a * a + b * b)

\* Math.pow(base, dt) for a base just below 1 (in UNIT) and 0 <= dt <= 2 frames
\* (in DTU): the binomial series of (1 - a)^dt to the second order.
Pow(base, dt) ==
    LET a == UNIT - base
    IN  UNIT - Div(a * dt, DTU)
             + Div(Div(dt * (dt - DTU), DTU) * a * a, 2 * DTU * UNIT)

---------------------------------------------------------------------------
(* Balls and obstacles.                                                    *)
(*                                                                         *)
(* A ball record holds the fields of `ballObj`: x, y, vx, vy, active,      *)
(* prevX/prevY (hasPrev is FALSE while they are still undefined),          *)
(* rotation, spinSpeed and restingStartTime (0 for undefined/null, which   *)
(* the script does not tell apart from 0), and `impact`, the 'impact'      *)
(* class of its element.  id names its element; stepped records whether    *)
(* animateAll has integrated the ball at least once (observation only).    *)
(* An obstacle record holds type, left, right, top, bottom and, for a      *)
(* mask, width, height and mask = [width, height, data] with data the      *)
(* RGBA bytes of getImageData, row by row.                                 *)

NewBall(id, x, y, vx, vy, rot, spin) ==
    [id |-> id, x |-> x, y |-> y, vx |-> vx, vy |-> vy, active |-> TRUE,
     hasPrev |-> FALSE, prevX |-> 0, prevY |-> 0, rotation |-> rot,
     spinSpeed |-> spin, restingStartTime |-> 0, impact |-> FALSE,
     stepped |-> FALSE]

NoMask == [width |-> 0, height |-> 0, data |-> << >>]

RectObstacle(l, r, t, b) ==
    [type |-> "rect", left |-> l, right |-> r, top |-> t, bottom |-> b,
     width |-> 0, height |-> 0, mask |-> NoMask]

MaskObstacle(l, r, t, b, m) ==
    [type |-> "mask", left |-> l, right |-> r, top |-> t, bottom |-> b,
     width |-> r - l, height |-> b - t, mask |-> m]

\* A bounce that loses no speed.
BouncedFull(v, vel) == Abs(vel)

\* Math.abs(v) * bounceFactor, and the snap to zero below stopVelocity.
Bounced(v, vel) == Div(Abs(vel) * bounceFactor(v), 100)

SnapStop(v, vel) == IF Abs(vel) < stopVelocity(v) THEN 0 ELSE vel

\* The X axis also taken on a tie.
AlongXOnTie(minOverlapX, minOverlapY) == minOverlapX <= minOverlapY

\* if (minOverlapX < minOverlapY): the collision is resolved along the X axis.
AlongX(minOverlapX, minOverlapY) == minOverlapX < minOverlapY

\* A check that reports the overlap and leaves the ball where it is.
RectHitInPlace(v, b, obs) ==
    [ball |-> b,
     hit |-> /\ obs.type = "rect"
             /\ b.x + ballRadius(v) > obs.left /\ b.x - ballRadius(v) < obs.right
             /\ b.y + ballRadius(v) > obs.top /\ b.y - ballRadius(v) < obs.bottom]

\* checkRectCollision(ballObj, obs): the ball after the call and the value returned.
checkRectCollision(v, b, obs) ==
    LET r == ballRadius(v)
        ballLeft == b.x - r
        ballRight == b.x + r
        ballTop == b.y - r
        ballBottom == b.y + r
        overlapLeft == ballRight - obs.left
        overlapRight == obs.right - ballLeft
        overlapTop == ballBottom - obs.top
        overlapBottom == obs.bottom - ballTop
        minOverlapX == Min(overlapLeft, overlapRight)
        minOverlapY == Min(overlapTop, overlapBottom)
        hit1 == IF v = 2 THEN [b EXCEPT !.impact = TRUE] ELSE b
        sideVx == IF overlapLeft < overlapRight
                  THEN SnapStop(v, -Bounced(v, b.vx))
                  ELSE SnapStop(v, Bounced(v, b.vx))
        sideX == IF overlapLeft < overlapRight THEN obs.left - r ELSE obs.right + r
        topVy == IF overlapTop < overlapBottom
                 THEN SnapStop(v, -Bounced(v, b.vy))
                 ELSE SnapStop(v, Bounced(v, b.vy))
        topY == IF overlapTop < overlapBottom THEN obs.top - r ELSE obs.bottom + r
    IN  IF obs.type # "rect" THEN [ball |-> b, hit |-> FALSE]
        ELSE IF ballRight > obs.left /\ ballLeft < obs.right
                /\ ballBottom > obs.top /\ ballTop < obs.bottom
        THEN IF AlongX(minOverlapX, minOverlapY)
             THEN [ball |-> [hit1 EXCEPT !.x = sideX, !.vx = sideVx,
                                         !.rotation = IF v = 2 THEN @ + sideVx * 2 ELSE @],
                   hit |-> TRUE]
             ELSE [ball |-> [hit1 EXCEPT !.y = topY, !.vy = topVy], hit |-> TRUE]
        ELSE [ball |-> b, hit |-> FALSE]

\* Clamp an index into 0 .. n-1.
ClampIndex(i, n) == Max(0, Min(n - 1, i))

\* obs.mask.data[(iy * width + ix) * 4 + 3]: the alpha byte of pixel (ix, iy).
AlphaAt(mask, ix, iy) == mask.data[(iy * mask.width + ix) * 4 + 3 + 1]

\* The pixel of the mask under the ball's centre.
SampleX(b, obs) ==
    ClampIndex(((b.x - obs.left) * obs.mask.width) \div obs.width, obs.mask.width)

SampleY(b, obs) ==
    ClampIndex(((b.y - obs.top) * obs.mask.height) \div obs.height, obs.mask.height)

\* sampleOpaque(dx, dy) around pixel (sx, sy).
sampleOpaque(mask, sx, sy, dx, dy) ==
    LET ix == ClampIndex(sx + dx, mask.width)
        iy == ClampIndex(sy + dy, mask.height)
    IN  IF AlphaAt(mask, ix, iy) > maskAlphaThreshold THEN 1 ELSE 0

\* A test that lets a pixel at the threshold itself collide.
BelowThreshold(alpha) == alpha < maskAlphaThreshold

\* alpha <= maskAlphaThreshold: the pixel under the centre does not collide.
Transparent(alpha) == alpha <= maskAlphaThreshold

\* A roll-back that keeps the current coordinate.
PrevIgnored(b, prev, cur) == cur

\* ballObj.prevX ?? ballObj.x: the coordinate recorded at the start of the step,
\* or the current one for a ball that has not been stepped.
PrevOr(b, prev, cur) == IF b.hasPrev THEN prev ELSE cur

\* checkMaskCollision(ballObj, obs): the ball after the call and the value returned.
checkMaskCollision(b, obs) ==
    LET r == ballRadius2
        localX == b.x - obs.left
        localY == b.y - obs.top
        sx == SampleX(b, obs)
        sy == SampleY(b, obs)
        gx == sampleOpaque(obs.mask, sx, sy, 1, 0) - sampleOpaque(obs.mask, sx, sy, -1, 0)
        gy == sampleOpaque(obs.mask, sx, sy, 0, 1) - sampleOpaque(obs.mask, sx, sy, 0, -1)
        speed0 == Hypot(b.vx, b.vy)
        speed == IF speed0 = 0 THEN PX ELSE speed0
        nx0 == IF gx = 0 /\ gy = 0 THEN Div(b.vx * UNIT, speed) ELSE gx * UNIT
        ny0 == IF gx = 0 /\ gy = 0 THEN Div(b.vy * UNIT, speed) ELSE gy * UNIT
        nLen0 == Hypot(nx0, ny0)
        nLen == IF nLen0 = 0 THEN UNIT ELSE nLen0
        nx == Div(nx0 * UNIT, nLen)
        ny == Div(ny0 * UNIT, nLen)
        vDot == Div(b.vx * nx + b.vy * ny, UNIT)
    IN  IF obs.type # "mask" THEN [ball |-> b, hit |-> FALSE]
        ELSE IF b.x + r < obs.left \/ b.x - r > obs.right
                \/ b.y + r < obs.top \/ b.y - r > obs.bottom
        THEN [ball |-> b, hit |-> FALSE]
        ELSE IF localX < 0 \/ localY < 0 \/ localX > obs.width \/ localY > obs.height
        THEN [ball |-> b, hit |-> FALSE]
        ELSE IF Transparent(AlphaAt(obs.mask, sx, sy))
        THEN [ball |-> b, hit |-> FALSE]
        ELSE [ball |-> [b EXCEPT
                  !.vx = Div((b.vx - Div(2 * vDot * nx, UNIT)) * bounceFactor2, 100),
                  !.vy = Div((b.vy - Div(2 * vDot * ny, UNIT)) * bounceFactor2, 100),
                  !.x = PrevOr(b, b.prevX, b.x),
                  !.y = PrevOr(b, b.prevY, b.y),
                  !.impact = TRUE],
              hit |-> TRUE]

\* resolveBallCollision(a, b): the two balls after the call.  ra and rb are the
\* two values spinTransfer * (Math.random() - 0.5) of variant 2.  The centre
\* distance is computed in 1/1000 px; a pair at least 2 * ballRadius apart on
\* one axis is not overlapping and is left alone before anything is squared.
resolveBallCollision(v, a, b, ra, rb) ==
    LET dx == b.x - a.x
        dy == b.y - a.y
        minDist == ballRadius(v) * 2
        dist0 == Sqrt((dx * dx + dy * dy) * 100)
        dist == IF dx = 0 /\ dy = 0 THEN 10 ELSE dist0
        nx == Div(dx * UNIT * 10, dist)
        ny == Div(dy * UNIT * 10, dist)
        overlap == minDist * 10 - dist
        separation == Div(overlap, 2)
        sx == Div(Div(nx * separation, UNIT), 10)
        sy == Div(Div(ny * separation, UNIT), 10)
        a1 == [a EXCEPT !.x = @ - sx, !.y = @ - sy]
        b1 == [b EXCEPT !.x = @ + sx, !.y = @ + sy]
        rvx == b.vx - a.vx
        rvy == b.vy - a.vy
        velAlongNormal == rvx * nx + rvy * ny
        impulse == Div(-(100 + ballBounceFactor(v)) * Div(velAlongNormal, UNIT), 200)
        ix == Div(impulse * nx, UNIT)
        iy == Div(impulse * ny, UNIT)
        a2 == [a1 EXCEPT !.vx = @ - ix, !.vy = @ - iy]
        b2 == [b1 EXCEPT !.vx = @ + ix, !.vy = @ + iy]
    IN  IF Abs(dx) >= minDist \/ Abs(dy) >= minDist THEN [a |-> a, b |-> b]
        ELSE IF dist < minDist * 10
        THEN IF velAlongNormal > 0 THEN [a |-> a1, b |-> b1]
             ELSE IF v = 1 THEN [a |-> a2, b |-> b2]
             ELSE [a |-> [a2 EXCEPT !.impact = TRUE, !.rotation = @ + ra],
                   b |-> [b2 EXCEPT !.impact = TRUE, !.rotation = @ + rb]]
        ELSE [a |-> a, b |-> b]

\* The speed Math.sqrt(vx * vx + vy * vy) of a ball.
Speed(b) == Hypot(b.vx, b.vy)

\* clampVelocity(ballObj).
clampVelocity(v, b) ==
    LET speed == Speed(b)
    IN  IF speed > maxVelocity(v)
        THEN [b EXCEPT !.vx = Div(b.vx * maxVelocity(v), speed),
                       !.vy = Div(b.vy * maxVelocity(v), speed)]
        ELSE b

\* applyCursorMagnetism(ballObj), with the cursor at (mx, my).  cos(atan2(dy, dx))
\* is dx / distance.  A ball a full radius away on one axis is outside the field.
applyCursorMagnetism(b, mx, my) ==
    LET dx == mx - b.x
        dy == my - b.y
        distanceSq == dx * dx + dy * dy
        distance == Sqrt(distanceSq)
        force == Div((magneticRadius - distance) * magneticStrength, magneticRadius)
        forceX == Div(dx * force, distance)
        forceY == Div(dy * force, distance)
    IN  IF Abs(dx) >= magneticRadius \/ Abs(dy) >= magneticRadius THEN b
        ELSE IF distanceSq < magneticRadius * magneticRadius /\ distanceSq > 25 * PX * PX
        THEN [b EXCEPT !.vx = @ + Div(forceX * 8, 10), !.vy = @ + Div(forceY * 8, 10)]
        ELSE b

\* (currentTime - lastTime) / 16.67 without the cap, in DTU.
DeltaTimeUncapped(currentTime, last) == Div((currentTime - last) * 100 * DTU, 1667)

\* deltaTime = Math.min((currentTime - lastTime) / 16.67, 2), in DTU.
DeltaTime(currentTime, last) ==
    LET d == currentTime - last
    IN  IF d * 100 >= 2 * 1667 THEN 2 * DTU ELSE Div(d * 100 * DTU, 1667)

\* The first loop of animateAll for one ball: magnetism (variant 2), gravity,
\* air resistance, clamp, position, rotation (variant 2).
Integrate(v, b, dt, mx, my) ==
    LET b0 == IF v = 2 THEN [b EXCEPT !.hasPrev = TRUE, !.prevX = b.x, !.prevY = b.y]
                       ELSE b
        b1 == IF v = 2 THEN applyCursorMagnetism(b0, mx, my) ELSE b0
        b2 == [b1 EXCEPT !.vy = @ + Div(gravity(v) * dt, DTU)]
        f == Pow(airResistance(v), dt)
        b3 == [b2 EXCEPT !.vx = Div(@ * f, UNIT), !.vy = Div(@ * f, UNIT)]
        b4 == clampVelocity(v, b3)
        b5 == [b4 EXCEPT !.x = @ + Div(b4.vx * dt, DTU), !.y = @ + Div(b4.vy * dt, DTU),
                         !.stepped = TRUE]
    IN  IF ~b.active THEN b
        ELSE IF v = 2
        THEN [b5 EXCEPT !.rotation = @ + Div((Div(b5.vx, 2) + b5.spinSpeed) * dt, DTU)]
        ELSE b5

RECURSIVE CollideObstacles(_, _, _, _)
\* The second loop of animateAll for one ball: every obstacle from k on, in order.
CollideObstacles(v, b, obstacles, k) ==
    IF k > Len(obstacles) THEN b
    ELSE LET obs == obstacles[k]
             b1 == IF obs.type = "rect" THEN checkRectCollision(v, b, obs).ball
                   ELSE IF obs.type = "mask" /\ v = 2 THEN checkMaskCollision(b, obs).ball
                   ELSE b
         IN  CollideObstacles(v, b1, obstacles, k + 1)

RECURSIVE CollideWith(_, _, _, _, _, _)
\* The inner ball-to-ball loop of animateAll for the active ball i: its partners
\* from j on.
CollideWith(v, bs, i, j, ra, rb) ==
    IF j > Len(bs) THEN bs
    ELSE IF ~bs[j].active THEN CollideWith(v, bs, i, j + 1, ra, rb)
    ELSE LET res == resolveBallCollision(v, bs[i], bs[j], ra, rb)
         IN  CollideWith(v, [bs EXCEPT ![i] = res.a, ![j] = res.b], i, j + 1, ra, rb)

RECURSIVE CollideBalls(_, _, _, _, _, _)
\* The ball-to-ball loops of animateAll, from the pair (i, j) on.
CollideBalls(v, bs, i, j, ra, rb) ==
    IF i > Len(bs) THEN bs
    ELSE IF ~bs[i].active THEN CollideBalls(v, bs, i + 1, i + 2, ra, rb)
    ELSE CollideBalls(v, CollideWith(v, bs, i, j, ra, rb), i + 1, i + 2, ra, rb)

\* The wall, ceiling and floor loop of animateAll for one ball of variant 1.  The
\* document is docWidth wide and docHeight high and is scrolled by scrollY.
Walls1(b, docWidth, docHeight, scrollY) ==
    LET r == ballRadius1
        b1 == IF b.x - r < 0
              THEN [b EXCEPT !.x = r, !.vx = SnapStop(1, Bounced(1, b.vx))]
              ELSE b
        b2 == IF b1.x + r > docWidth
              THEN [b1 EXCEPT !.x = docWidth - r, !.vx = SnapStop(1, -Bounced(1, b1.vx))]
              ELSE b1
        b3 == IF b2.y - r < scrollY
              THEN [b2 EXCEPT !.y = scrollY + r, !.vy = SnapStop(1, Bounced(1, b2.vy))]
              ELSE b2
    IN  IF ~b.active THEN b
        ELSE IF b3.y - r > docHeight + 50 * PX THEN [b3 EXCEPT !.active = FALSE]
        ELSE b3

\* A last loop that resolves no bound.
Walls2Open(b, docWidth, docHeight, currentTime) == b

\* The same loop for one ball of variant 2, in a viewport docWidth by docHeight.
Walls2(b, docWidth, docHeight, currentTime) ==
    LET r == ballRadius2
        b1 == IF b.x - r < 0
              THEN [b EXCEPT !.x = r, !.vx = SnapStop(2, Bounced(2, b.vx))]
              ELSE b
        b2 == IF b1.x + r > docWidth
              THEN [b1 EXCEPT !.x = docWidth - r, !.vx = SnapStop(2, -Bounced(2, b1.vx))]
              ELSE b1
        b3 == IF b2.y - r < 0
              THEN [b2 EXCEPT !.y = r, !.vy = SnapStop(2, Bounced(2, b2.vy))]
              ELSE b2
        b4 == [b3 EXCEPT !.y = docHeight - r, !.vy = SnapStop(2, -Bounced(2, b3.vy))]
        resting == Abs(b4.vx) < stopVelocity2 /\ Abs(b4.vy) < stopVelocity2
    IN  IF ~b.active THEN b
        ELSE IF b3.y > docHeight + 200 * PX THEN [b3 EXCEPT !.active = FALSE]
        ELSE IF b3.y + r > docHeight
        THEN IF resting
             THEN IF b4.restingStartTime = 0
                  THEN [b4 EXCEPT !.restingStartTime = currentTime]
                  ELSE IF currentTime - b4.restingStartTime > restTimeout
                  THEN [b4 EXCEPT !.active = FALSE]
                  ELSE b4
             ELSE [b4 EXCEPT !.restingStartTime = 0]
        ELSE [b3 EXCEPT !.restingStartTime = 0]

\* The ids of the balls of a sequence, and those of its inactive balls.
Ids(bs) == {bs[i].id : i \in 1..Len(bs)}

InactiveIds(bs) == {bs[i].id : i \in {k \in 1..Len(bs) : ~bs[k].active}}

\* A splice loop that removes nothing.
SpliceNothing(bs) == bs

\* The splice loop of animateAll: the active balls, in order.
SpliceInactive(bs) == SelectSeq(bs, LAMBDA b : b.active)

\* A loop that reschedules itself whatever is left.
SomeActiveAlways(bs) == TRUE

\* balls.some(b => b.active)
SomeActive(bs) == \E i \in 1..Len(bs) : bs[i].active

RECURSIVE cleanupBalls(_, _)
\* cleanupBalls(): the collection after the call (the elements of the balls
\* shifted out are removed from the document by the caller of this operator).
cleanupBalls(v, bs) ==
    IF Len(bs) > maxBalls(v) THEN cleanupBalls(v, Tail(bs)) ELSE bs

---------------------------------------------------------------------------
(* The page.  env.elems is the sequence of marked elements in document     *)
(* order, each [kind, left, right, top, bottom, complete, naturalWidth,    *)
(* naturalHeight, alphas]: kind is "obstacle" (data-ball-obstacle) or      *)
(* "mask" (data-ball-mask), the box is in document coordinates, and alphas *)
(* is the alpha channel of the image, row by row.                          *)

Element(kind, l, r, t, b, complete, nw, nh, alphas) ==
    [kind |-> kind, left |-> l, right |-> r, top |-> t, bottom |-> b,
     complete |-> complete, naturalWidth |-> nw, naturalHeight |-> nh,
     alphas |-> alphas]

\* el.getBoundingClientRect() with the page scrolled by scrollY.
BoundingClientRect(el, scrollY) ==
    [left |-> el.left, right |-> el.right, top |-> el.top - scrollY,
     bottom |-> el.bottom - scrollY, width |-> el.right - el.left,
     height |-> el.bottom - el.top]

\* ctx.getImageData(...).data after drawing the image: RGBA, row by row.
ImageData(el) ==
    [k \in 1..(4 * el.naturalWidth * el.naturalHeight) |->
        IF k % 4 = 0 THEN el.alphas[k \div 4] ELSE 0]

\* A cache that is never hit.
CachedNever(cache, k) == FALSE

\* maskCache.has(el) for the k-th element.
Cached(cache, k) == cache[k] # NoMask

\* getMaskData(el) for the k-th element: the mask returned (NoMask for null) and
\* the cache after the call.
getMaskData(el, k, cache) ==
    IF Cached(cache, k) THEN [mask |-> cache[k], cache |-> cache]
    ELSE IF ~el.complete \/ el.naturalWidth = 0 \/ el.naturalHeight = 0
    THEN [mask |-> NoMask, cache |-> cache]
    ELSE LET mask == [width |-> el.naturalWidth, height |-> el.naturalHeight,
                      data |-> ImageData(el)]
         IN  [mask |-> mask, cache |-> [cache EXCEPT ![k] = mask]]

\* The rectangle getObstacles pushes for a data-ball-obstacle element, as a
\* one-element sequence, or << >> when the element is skipped.
RectOf(v, el, scrollY) ==
    LET rect == BoundingClientRect(el, scrollY)
        insetX == Min(10 * PX, Div(rect.width * 8, 100))
        insetY == Min(10 * PX, Div(rect.height * 12, 100))
        left == rect.left + insetX
        right == rect.right - insetX
        top == IF v = 1 THEN rect.top + scrollY + insetY ELSE rect.top + insetY
        bottom == IF v = 1 THEN rect.bottom + scrollY - insetY ELSE rect.bottom - insetY
    IN  IF rect.width < 6 * PX \/ rect.height < 6 * PX THEN << >>
        ELSE IF right - left < 4 * PX \/ bottom - top < 4 * PX THEN << >>
        ELSE << RectObstacle(left, right, top, bottom) >>

RECURSIVE RectObstacles(_, _, _, _)
RectObstacles(v, elems, scrollY, k) ==
    IF k > Len(elems) THEN << >>
    ELSE (IF elems[k].kind = "obstacle" THEN RectOf(v, elems[k], scrollY) ELSE << >>)
         \o RectObstacles(v, elems, scrollY, k + 1)

RECURSIVE MaskObstacles(_, _, _, _)
\* The second loop of getObstacles (variant 2): the masks pushed and the cache.
MaskObstacles(elems, scrollY, k, cache) ==
    IF k > Len(elems) THEN [obstacles |-> << >>, cache |-> cache]
    ELSE LET el == elems[k]
             rect == BoundingClientRect(el, scrollY)
             skip == el.kind # "mask" \/ rect.width < 6 * PX \/ rect.height < 6 * PX
             got == getMaskData(el, k, cache)
             rest == MaskObstacles(elems, scrollY, k + 1, IF skip THEN cache ELSE got.cache)
         IN  IF skip \/ got.mask = NoMask THEN rest
             ELSE [obstacles |->
                       << MaskObstacle(rect.left, rect.right, rect.top, rect.bottom,
                                       got.mask) >> \o rest.obstacles,
                   cache |-> rest.cache]

\* getObstacles(): the obstacle list and the mask cache after the call.
getObstacles(v, e, cache) ==
    IF v = 1 THEN [obstacles |-> RectObstacles(1, e.elems, e.scrollY, 1), cache |-> cache]
    ELSE LET m == MaskObstacles(e.elems, e.scrollY, 1, cache)
         IN  [obstacles |-> RectObstacles(2, e.elems, e.scrollY, 1) \o m.obstacles,
              cache |-> m.cache]

---------------------------------------------------------------------------
(* The handlers of the ball scripts. *)

\* document.documentElement.scrollHeight (variant 1) or window.innerHeight (2).
DocHeight(v, e) == IF v = 1 THEN e.scrollHeight ELSE e.viewHeight

\* The velocity the click handler of variant 2 passes to spawnBall.  rnd holds the
\* handler's random draws: pattern, force (clickForce), ux and uy (cos and sin of
\* burstAngle, in UNIT), u (a Math.random() - 0.5, in 1/100), w (a Math.random(),
\* in 1/100).
LaunchVelocity(rnd) ==
    IF rnd.pattern = "burst"
    THEN [vx |-> Div(rnd.ux * rnd.force, UNIT), vy |-> Div(rnd.uy * rnd.force, UNIT)]
    ELSE IF rnd.pattern = "straight"
    THEN [vx |-> rnd.u * 2, vy |-> rnd.force]
    ELSE IF rnd.pattern = "arc"
    THEN [vx |-> Div(rnd.u * rnd.force * 3, 200), vy |-> -Div(rnd.force, 2)]
    ELSE [vx |-> Div(rnd.u * rnd.force * 2, 100), vy |-> Div(rnd.w * rnd.force, 100)]

\* A handler that creates its ball inactive.
SpawnedInactive(v, id, cx, cy, scrollY, rnd) ==
    [NewBall(id, cx, cy + scrollY, rnd.jx, 2 * PX, 0, 0) EXCEPT !.active = FALSE]

\* The ball the click handler creates for a click at client point (cx, cy).  jx
\* and jy are the jitters (Math.random() - 0.5) * 6 and * 4, rot and spin the
\* initial rotation and spinSpeed of variant 2.
SpawnedBall(v, id, cx, cy, scrollY, rnd) ==
    IF v = 1 THEN NewBall(id, cx, cy + scrollY, rnd.jx, 2 * PX, 0, 0)
    ELSE LET lv == LaunchVelocity(rnd)
         IN  NewBall(id, cx, cy + scrollY, lv.vx + rnd.jx, lv.vy + rnd.jy,
                     rnd.rot, rnd.spin)

\* The click handler of the hero.  target is "link" when e.target.closest('a,
\* button') finds an element, "hero" otherwise.
Click(target, cx, cy, rnd) ==
    /\ IF target = "link"
       THEN /\ UNCHANGED <<balls, dom, animating, rafPending, nextId>>
            /\ hist' = [op |-> "click-ignored", dt |-> 0, evicted |-> {},
                        removed |-> {}, scheduled |-> FALSE]
       ELSE LET kept == cleanupBalls(variant, balls)
                evicted == Ids(balls) \ Ids(kept)
                ballObj == SpawnedBall(variant, nextId + 1, cx, cy, env.scrollY, rnd)
            IN  /\ balls' = Append(kept, ballObj)
                /\ dom' = (dom \ evicted) \cup {ballObj.id}
                /\ nextId' = nextId + 1
                /\ animating' = TRUE
                /\ rafPending' = IF animating THEN rafPending ELSE rafPending + 1
                /\ hist' = [op |-> "click", dt |-> 0, evicted |-> evicted,
                            removed |-> {}, scheduled |-> ~animating]
    /\ UNCHANGED <<variant, removeTimers, lastTime, now, obstacleCache,
                   obstacleCacheTime, env, call, maskCache, reveal, contact, scene>>

\* A wall loop that sets no timer for the elements of the balls it drops.
DropTimersNone(before, after, docHeight, t, k) == << >>

RECURSIVE DropTimers(_, _, _, _, _)
\* The setTimeout calls of the wall loop of variant 2, from ball k on: a ball that
\* went too far below the viewport is detached 300 ms later, one that rested for
\* too long (lying on the floor) 500 ms later.  before and after are the
\* collection before and after the loop.
DropTimers(before, after, docHeight, t, k) ==
    IF k > Len(after) THEN << >>
    ELSE (IF before[k].active /\ ~after[k].active
          THEN << [id |-> after[k].id,
                   due |-> IF after[k].y > docHeight + 200 * PX
                           THEN t + 300 ELSE t + 500] >>
          ELSE << >>) \o DropTimers(before, after, docHeight, t, k + 1)

\* currentTime - obstacleCacheTime > obstacleCacheDuration.
CacheExpired(t, oCacheTime) == t - oCacheTime > obstacleCacheDuration

\* The body of animateAll(currentTime) for a non-empty collection bs: the
\* collection after the splice loop, the ids of the balls it dropped (and the
\* timers set for their elements in variant 2), the obstacle and mask caches
\* after the call, and the deltaTime it computed.
animateAll(v, bs, last0, t, oCache, oCacheTime, mCache, e, ra, rb) ==
    LET last == IF last0 = 0 THEN t ELSE last0
        deltaTime == DeltaTime(t, last)
        refresh == v = 1 \/ CacheExpired(t, oCacheTime)
        got == getObstacles(v, e, mCache)
        obstacles == IF refresh THEN got.obstacles ELSE oCache
        n == Len(bs)
        p1 == AsSeq([i \in 1..n |-> Integrate(v, bs[i], deltaTime, e.mouseX, e.mouseY)])
        p2 == AsSeq([i \in 1..n |->
                  IF p1[i].active THEN CollideObstacles(v, p1[i], obstacles, 1)
                                  ELSE p1[i]])
        p3 == CollideBalls(v, p2, 1, 2, ra, rb)
        p4 == AsSeq([i \in 1..n |->
                  IF v = 1
                  THEN Walls1(p3[i], e.width, DocHeight(1, e), e.scrollY)
                  ELSE Walls2(p3[i], e.width, DocHeight(2, e), t)])
    IN  [balls |-> SpliceInactive(p4),
         removed |-> InactiveIds(p4) \ InactiveIds(bs),
         timers |-> IF v = 2 THEN DropTimers(bs, p4, DocHeight(2, e), t, 1) ELSE << >>,
         obstacleCache |-> IF v = 2 /\ refresh THEN got.obstacles ELSE oCache,
         obstacleCacheTime |-> IF v = 2 /\ refresh THEN t ELSE oCacheTime,
         maskCache |-> IF v = 2 /\ refresh THEN got.cache ELSE mCache,
         deltaTime |-> deltaTime]

\* animateAll(currentTime), called by requestAnimationFrame at time stamp t.  ra
\* and rb are the spins spinTransfer * (Math.random() - 0.5) the ball collisions
\* of this frame draw.
Frame(t, ra, rb) ==
    /\ rafPending > 0
    /\ t > now
    /\ now' = t
    /\ IF Len(balls) = 0
       THEN /\ animating' = FALSE
            /\ lastTime' = 0
            /\ rafPending' = rafPending - 1
            /\ hist' = [op |-> "frame-empty", dt |-> 0, evicted |-> {},
                        removed |-> {}, scheduled |-> FALSE]
            /\ UNCHANGED <<balls, dom, removeTimers, obstacleCache,
                           obstacleCacheTime, maskCache>>
       ELSE \E r \in {animateAll(variant, balls, lastTime, t, obstacleCache,
                                 obstacleCacheTime, maskCache, env, ra, rb)} :
                /\ lastTime' = t
                /\ balls' = r.balls
                /\ dom' = IF variant = 1 THEN dom \ r.removed ELSE dom
                /\ removeTimers' = removeTimers \o r.timers
                /\ obstacleCache' = r.obstacleCache
                /\ obstacleCacheTime' = r.obstacleCacheTime
                /\ maskCache' = r.maskCache
                /\ IF SomeActive(r.balls)
                   THEN /\ rafPending' = rafPending
                        /\ UNCHANGED animating
                   ELSE /\ rafPending' = rafPending - 1
                        /\ animating' = FALSE
                /\ hist' = [op |-> "frame", dt |-> r.deltaTime, evicted |-> {},
                            removed |-> r.removed, scheduled |-> SomeActive(r.balls)]
    /\ UNCHANGED <<variant, nextId, env, call, reveal, contact, scene>>

\* The index of the pending removal timer that fires next: the earliest due, and
\* among those the first set.
NextTimer(timers) ==
    CHOOSE k \in 1..Len(timers) :
        \A j \in 1..Len(timers) :
            timers[k].due < timers[j].due \/ (timers[k].due = timers[j].due /\ k <= j)

\* The setTimeout callback that detaches the element of a ball variant 2 has
\* dropped (after its fade).
RemoveTimerFire ==
    /\ Len(removeTimers) > 0
    /\ \E k \in {NextTimer(removeTimers)} :
           /\ removeTimers' = SubSeq(removeTimers, 1, k - 1)
                                \o SubSeq(removeTimers, k + 1, Len(removeTimers))
           /\ dom' = dom \ {removeTimers[k].id}
           /\ hist' = [op |-> "remove-timer", dt |-> 0, evicted |-> {},
                       removed |-> {removeTimers[k].id}, scheduled |-> FALSE]
    /\ UNCHANGED <<variant, balls, animating, rafPending, lastTime, now, nextId,
                   obstacleCache, obstacleCacheTime, env, call, maskCache, reveal, contact, scene>>

\* The setTimeout callback that takes the 'impact' class off a ball's element.
ImpactTimeout(i) ==
    /\ i \in 1..Len(balls)
    /\ balls[i].impact
    /\ balls' = [balls EXCEPT ![i].impact = FALSE]
    /\ hist' = [op |-> "impact-timer", dt |-> 0, evicted |-> {}, removed |-> {},
                scheduled |-> FALSE]
    /\ UNCHANGED <<variant, dom, removeTimers, animating, rafPending, lastTime, now,
                   nextId, obstacleCache, obstacleCacheTime, env, call, maskCache,
                   reveal, contact, scene>>

\* The mousemove listener of variant 2.
MouseMove(x, y) ==
    /\ variant = 2
    /\ env' = [env EXCEPT !.targetMouseX = x, !.targetMouseY = y]
    /\ hist' = [op |-> "mousemove", dt |-> 0, evicted |-> {}, removed |-> {},
                scheduled |-> FALSE]
    /\ UNCHANGED <<variant, balls, dom, removeTimers, animating, rafPending, lastTime,
                   now, nextId, obstacleCache, obstacleCacheTime, call, maskCache,
                   reveal, contact, scene>>

\* animateMouseDisturbance() of variant 2, which reschedules itself every frame.
animateMouseDisturbance ==
    /\ variant = 2
    /\ env' = [env EXCEPT
                 !.mouseX = @ + Div((env.targetMouseX - @) * 15, 100),
                 !.mouseY = @ + Div((env.targetMouseY - @) * 15, 100)]
    /\ hist' = [op |-> "mouse-frame", dt |-> 0, evicted |-> {}, removed |-> {},
                scheduled |-> FALSE]
    /\ UNCHANGED <<variant, balls, dom, removeTimers, animating, rafPending, lastTime,
                   now, nextId, obstacleCache, obstacleCacheTime, call, maskCache,
                   reveal, contact, scene>>

---------------------------------------------------------------------------
(* Initial states and inputs shared by the specifications. *)

\* Time stamp of the page when the script has run (ms).
StartTime == 10000

NoHist == [op |-> "init", dt |-> 0, evicted |-> {}, removed |-> {}, scheduled |-> FALSE]

NoCall == [fn |-> "none", pre |-> << >>, post |-> << >>, hit |-> FALSE]

NoReveal ==
    [pc |-> "off", reducedMotion |-> FALSE, intersecting |-> {}, observed |-> {},
     queued |-> {}, revealed |-> {}, acted |-> {}]

\* A page that does not load project.js.
NoScene ==
    [loaded |-> FALSE, ticking |-> FALSE, pending |-> 0, scrollY |-> 0, seen |-> 0,
     unseen |-> FALSE, scrolls |-> 0]

\* A page without the element #contactForm: no submit listener is registered.
NoContact ==
    [present |-> FALSE, sending |-> FALSE, success |-> FALSE, disabled |-> FALSE,
     fields |-> "", inflight |-> << >>, timers |-> 0, alerts |-> 0, submits |-> 0,
     last |-> "none"]

\* A page width by viewHeight (the viewport) and scrollHeight high, not scrolled,
\* with the cursor at the origin, where the script's mouseX and mouseY start.
Page(width, viewHeight, scrollHeight, elems) ==
    [width |-> width, viewHeight |-> viewHeight, scrollHeight |-> scrollHeight,
     scrollY |-> 0, elems |-> elems, mouseX |-> 0, mouseY |-> 0,
     targetMouseX |-> 0, targetMouseY |-> 0, refresh |-> 17]

\* The state of a ball script right after it has run on page e.
ScriptLoadedAt(v, e, t) ==
    /\ variant = v
    /\ balls = << >>
    /\ dom = {}
    /\ removeTimers = << >>
    /\ animating = FALSE
    /\ rafPending = 0
    /\ lastTime = 0
    /\ now = t
    /\ nextId = 0
    /\ obstacleCache = << >>
    /\ obstacleCacheTime = 0
    /\ env = e
    /\ hist = NoHist
    /\ maskCache = [k \in 1..Len(e.elems) |-> NoMask]

ScriptLoaded(v, e) == ScriptLoadedAt(v, e, StartTime)

\* A heading marked data-ball-obstacle, 200 px by 40 px, 100 px down the page.
Heading == Element("obstacle", 100 * PX, 300 * PX, 100 * PX, 140 * PX, TRUE, 0, 0, << >>)

\* The draws of a click whose jitter is zero and that launches straight down.
StraightDown ==
    [pattern |-> "straight", force |-> 8 * PX, ux |-> 0, uy |-> UNIT, u |-> 0, w |-> 0,
     jx |-> 0, jy |-> 0, rot |-> 0, spin |-> 0]

---------------------------------------------------------------------------
(* SpecCap: many clicks, few frames: the cap on the tracking collection.   *)

MaxCapSpawns == 22
MaxCapFrames == 2
CapInterval == 17

\* The page of SpecCap, 400 px by 300 px in a document 1200 px high, either at
\* the top or scrolled down by 600 px (with the hero still in view).
CapPage(scrollY) ==
    [Page(400 * PX, 300 * PX, 1200 * PX, << Heading >>) EXCEPT !.scrollY = scrollY]

InitCap ==
    /\ \E v \in {1, 2}, scrollY \in {0, 600 * PX} : ScriptLoaded(v, CapPage(scrollY))
    /\ call = NoCall
    /\ reveal = NoReveal /\ contact = NoContact /\ scene = NoScene

CapClick ==
    \E target \in {"hero", "link"} :
        /\ nextId < MaxCapSpawns
        /\ Click(target, 200 * PX, 50 * PX, StraightDown)

CapFrame ==
    /\ now + CapInterval <= StartTime + MaxCapFrames * CapInterval
    /\ Frame(now + CapInterval, 0, 0)

CapTimer == RemoveTimerFire

NextCap == CapClick \/ CapFrame \/ CapTimer

SpecCap == InitCap /\ [][NextCap]_vars

\* C1: after any sequence of spawns and frames the tracking collection holds at
\* most maxBalls balls, also right after a spawn has pushed its ball.
C1_CapNeverExceeded == Len(balls) <= maxBalls(variant)

\* C2: a spawn into a collection that already holds maxBalls balls evicts exactly
\* one ball, the oldest, from the collection and from the document, and leaves
\* the other balls in place and in order before the new ball is added.
C2_SpawnAtCapEvictsOldest ==
    [][(nextId' = nextId + 1 /\ Len(balls) = maxBalls(variant)) =>
          /\ Len(balls') = maxBalls(variant)
          /\ SubSeq(balls', 1, Len(balls') - 1) = Tail(balls)
          /\ balls'[Len(balls')].id = nextId'
          /\ Head(balls).id \notin dom'
          /\ \A i \in 2..Len(balls) : balls[i].id \in dom']_vars

\* C4 (as stated): the loop is self-terminating and restartable, so that every
\* spawned ball is stepped: no ball leaves the collection without animateAll
\* having integrated it.
C4_EverySpawnedBallStepped ==
    [][\A i \in 1..Len(balls) :
          (balls[i].id \notin Ids(balls') /\ hist'.op # "frame") => balls[i].stepped]_vars

\* C4 (amended): a step leaves a frame pending exactly when a ball is still
\* active at its end; with no ball tracked the loop is stopped (animating false,
\* no frame pending); a qualifying click leaves animating set and one frame
\* pending; and every frame steps every ball tracked when it runs, so a spawned
\* ball is stepped unless later spawns evict it before the next frame.
C4_LoopStopsAndRestarts ==
    /\ [](Len(balls) = 0 => (~animating /\ rafPending = 0))
    /\ [](Len(balls) > 0 => (animating /\ rafPending = 1))
    /\ [][now' # now =>
            /\ rafPending' = IF \E i \in 1..Len(balls') : balls'[i].active THEN 1 ELSE 0
            /\ \A i \in 1..Len(balls) :
                   \/ balls[i].id \notin Ids(balls')
                   \/ \E j \in 1..Len(balls') :
                          balls'[j].id = balls[i].id /\ balls'[j].stepped]_vars
    /\ [][nextId' # nextId => (animating' /\ rafPending' = 1)]_vars

\* The loop has stopped and a later click has started it again.
C4_Witness == hist.op = "click" /\ hist.scheduled /\ now > StartTime /\ nextId >= 2

---------------------------------------------------------------------------
(* SpecFall: one or two balls dropped down a tall page onto a rectangular  *)
(* obstacle, at a constant frame interval.                                 *)

MaxFallSpawns == 2
MaxFallFrames == 36

\* A block marked data-ball-obstacle whose collidable top edge is at y = 500 px:
\* 200 px by 100 px (80 px high after the inset) or 200 px by 6 px (a rule,
\* 4.56 px high after the inset).
Block == Element("obstacle", 100 * PX, 300 * PX, 490 * PX, 590 * PX, TRUE, 0, 0, << >>)

Rule == Element("obstacle", 100 * PX, 300 * PX, 49928, 50528, TRUE, 0, 0, << >>)

\* The page of SpecFall: 400 px wide, 2000 px high, seen through a viewport
\* 1000 px high.
FallPage(el) == Page(400 * PX, 1000 * PX, 2000 * PX, << el >>)

\* Display refresh intervals in ms: 60 Hz, and a slow 25 Hz whose deltaTime
\* the frame step caps at 2.
FallIntervals == {17, 40}

\* Click points (client coordinates) and horizontal jitters of SpecFall.
FallPoints == {<<200 * PX, 50 * PX>>, <<350 * PX, 50 * PX>>, <<320 * PX, 110 * PX>>}

FallJitters == {0, 299}

InitFall ==
    /\ \E v \in {1, 2}, el \in {Block, Rule}, d \in FallIntervals :
           ScriptLoaded(v, [FallPage(el) EXCEPT !.refresh = d])
    /\ call = NoCall
    /\ reveal = NoReveal /\ contact = NoContact /\ scene = NoScene

FallClick ==
    \E p \in FallPoints, jx \in FallJitters :
        /\ nextId < MaxFallSpawns
        /\ Click("hero", p[1], p[2], [StraightDown EXCEPT !.jx = jx])

FallFrame ==
    /\ now + env.refresh <= StartTime + MaxFallFrames * env.refresh
    /\ Frame(now + env.refresh, 0, 0)

NextFall == FallClick \/ FallFrame

SpecFall == InitFall /\ [][NextFall]_vars

\* Rounding allowance of the fixed-point speed, in 1/100 px per frame.
SpeedTolerance == 2

\* C3: at the end of every animateAll step every tracked ball's speed is at
\* most maxVelocity.
C3_SpeedAtMostMax ==
    hist.op = "frame" =>
        \A i \in 1..Len(balls) :
            Speed(balls[i]) <= maxVelocity(variant) + SpeedTolerance

\* The collidable top edge of the obstacle of the page.
ObstacleTop == RectOf(variant, env.elems[1], env.scrollY)[1].top

\* C9: a ball released with zero horizontal velocity directly above a
\* rectangular obstacle never passes below its resting height on the obstacle,
\* y = obstacle.top - ballRadius, so never reaches the obstacle's underside.
C9_NeverPassesThrough ==
    (nextId = 1 /\ Len(balls) = 1 /\ balls[1].x = 200 * PX /\ balls[1].vx = 0) =>
        balls[1].y <= ObstacleTop - ballRadius(variant)

---------------------------------------------------------------------------
(* Single calls of the collision routines, made from inside a frame.       *)

\* The state inside animateAll on page e while the balls bs are tracked, with
\* the obstacle list just fetched.
InFrame(v, e, bs) ==
    LET got == getObstacles(v, e, [k \in 1..Len(e.elems) |-> NoMask])
    IN  /\ variant = v
        /\ balls = bs
        /\ dom = Ids(bs)
        /\ removeTimers = << >>
        /\ animating = TRUE
        /\ rafPending = 0
        /\ lastTime = StartTime
        /\ now = StartTime
        /\ nextId = Len(bs)
        /\ obstacleCache = got.obstacles
        /\ obstacleCacheTime = StartTime
        /\ env = e
        /\ hist = NoHist
        /\ maskCache = got.cache
        /\ call = NoCall
        /\ reveal = NoReveal /\ contact = NoContact /\ scene = NoScene

\* One call of routine fn that leaves the balls post and returns hit.
Called(fn, post, hit) ==
    /\ call.fn = "none"
    /\ balls' = post
    /\ call' = [fn |-> fn, pre |-> balls, post |-> post, hit |-> hit]
    /\ UNCHANGED <<variant, dom, removeTimers, animating, rafPending, lastTime, now,
                   nextId, obstacleCache, obstacleCacheTime, env, hist, maskCache,
                   reveal, contact, scene>>

---------------------------------------------------------------------------
(* SpecPair: resolveBallCollision on one pair of balls.                    *)

\* Offsets of the second ball from the first, in 1/100 px: overlapping,
\* coincident (0, 0), and clear of each other.
PairOffsetsX == {-1500, -600, 0, 700, 1900, 2500}

PairOffsetsY == {-1200, 0, 500, 2450}

\* Velocities of a ball of the pair, in 1/100 px per frame.
PairVelocities == {<<0, 0>>, <<300, 0>>, <<0, -200>>, <<-150, 250>>}

\* Values of spinTransfer * (Math.random() - 0.5), in 1/100 degree.
PairSpins == {-250, 120}

PairPage == Page(400 * PX, 300 * PX, 600 * PX, << >>)

InitPair ==
    \E v \in {1, 2}, dx \in PairOffsetsX, dy \in PairOffsetsY,
       va \in PairVelocities, vb \in PairVelocities :
        InFrame(v, PairPage,
                << NewBall(0, 100 * PX, 100 * PX, va[1], va[2], 0, 0),
                   NewBall(1, 100 * PX + dx, 100 * PX + dy, vb[1], vb[2], 0, 0) >>)

PairCall ==
    \E ra \in PairSpins, rb \in PairSpins :
        \E r \in {resolveBallCollision(variant, balls[1], balls[2], ra, rb)} :
            Called("resolveBallCollision", << r.a, r.b >>, FALSE)

NextPair == PairCall

SpecPair == InitPair /\ [][NextPair]_vars

\* The squared centre distance of a pair, in (1/100 px)^2.
DistanceSq(bs) == (bs[2].x - bs[1].x) * (bs[2].x - bs[1].x)
                  + (bs[2].y - bs[1].y) * (bs[2].y - bs[1].y)

\* The pair's centre distance is below 2 * ballRadius.
Overlapping(bs) == DistanceSq(bs) < (2 * ballRadius(variant)) * (2 * ballRadius(variant))

\* The relative velocity of a pair along the line from the first centre to the
\* second, times their distance: it has the sign of velAlongNormal.
Approach(bs) == (bs[2].vx - bs[1].vx) * (bs[2].x - bs[1].x)
                + (bs[2].vy - bs[1].vy) * (bs[2].y - bs[1].y)

\* Rounding allowance of a fixed-point distance, in 1/100 px.
DistTolerance == 5

\* C5: a pair whose centre distance is below 2 * ballRadius when
\* resolveBallCollision is called, coincident centres included, is moved by
\* equal and opposite displacements and is 2 * ballRadius apart after the call.
C5_OverlapSeparated ==
    (call.fn = "resolveBallCollision" /\ Overlapping(call.pre)) =>
        /\ call.post[1].x - call.pre[1].x = -(call.post[2].x - call.pre[2].x)
        /\ call.post[1].y - call.pre[1].y = -(call.post[2].y - call.pre[2].y)
        /\ DistanceSq(call.post) >= (2 * ballRadius(variant) - DistTolerance)
                                    * (2 * ballRadius(variant) - DistTolerance)
        /\ DistanceSq(call.post) <= (2 * ballRadius(variant) + DistTolerance)
                                    * (2 * ballRadius(variant) + DistTolerance)

\* C6: resolveBallCollision leaves the velocities of an overlapping pair, and in
\* variant 2 its rotation and impact state, as they were when the relative
\* velocity along the collision normal is zero or positive.
C6_NotApproachingUntouched ==
    (call.fn = "resolveBallCollision" /\ Overlapping(call.pre) /\ Approach(call.pre) >= 0) =>
        \A k \in 1..2 :
            /\ call.post[k].vx = call.pre[k].vx
            /\ call.post[k].vy = call.pre[k].vy
            /\ call.post[k].rotation = call.pre[k].rotation
            /\ call.post[k].impact = call.pre[k].impact

---------------------------------------------------------------------------
(* SpecEdge: one ball against the edges of a rectangle obstacle            *)
(* (checkRectCollision) and against the walls, ceiling and floor (the last *)
(* per-ball loop of animateAll).                                           *)

\* Ball centres in px: inside each wall, around and inside the heading.
EdgeXs == {5, 105, 112, 200, 288, 295, 396}

EdgeYs == {4, 98, 106, 120, 134, 142, 295}

\* Velocity components in 1/100 px per frame: into and away from an edge, fast
\* and below the stop threshold after the bounce.
EdgeVelocities == {-300, -20, 0, 20, 300}

\* 400 px wide, seen through a viewport 300 px high, one heading obstacle.
EdgePage == Page(400 * PX, 300 * PX, 600 * PX, << Heading >>)

\* Ball centres in 1/100 px at which the ball overlaps a corner of the
\* heading's inset rectangle (110 .. 290 by 104.8 .. 135.2) by 5 px on both axes.
EdgeCorners == {<<10500, 9980>>, <<29500, 9980>>, <<10500, 14020>>, <<29500, 14020>>}

InitEdge ==
    \E v \in {1, 2},
       p \in {<<x * PX, y * PX>> : x \in EdgeXs, y \in EdgeYs} \cup EdgeCorners,
       vx \in EdgeVelocities, vy \in EdgeVelocities :
        InFrame(v, EdgePage, << NewBall(0, p[1], p[2], vx, vy, 0, 0) >>)

RectCall ==
    \E r \in {checkRectCollision(variant, balls[1], obstacleCache[1])} :
        Called("checkRectCollision", << r.ball >>, r.hit)

WallCall ==
    \E b \in {IF variant = 1
              THEN Walls1(balls[1], env.width, DocHeight(1, env), env.scrollY)
              ELSE Walls2(balls[1], env.width, DocHeight(2, env), now)} :
        Called("walls", << b >>, FALSE)

NextEdge == RectCall \/ WallCall

SpecEdge == InitEdge /\ [][NextEdge]_vars

\* The component a bounce leaves: magnitude |vel| * bounceFactor, 0 when that
\* is below stopVelocity, pointing in direction dir (-1 or 1).
AwayFrom(dir, vel) ==
    LET m == Div(Abs(vel) * bounceFactor(variant), 100)
    IN  IF m < stopVelocity(variant) THEN 0 ELSE dir * m

\* C7 (amended): a ball resolved against a straight edge is moved off the edge,
\* and its velocity component perpendicular to the edge points the way it was
\* moved, with the magnitude of the old value times bounceFactor, or is 0 when
\* that magnitude is below stopVelocity; a component whose axis was not
\* resolved is unchanged.
C7_BouncesAwayFromEdge ==
    call.fn \in {"checkRectCollision", "walls"} =>
        LET pre == call.pre[1]
            post == call.post[1]
        IN  /\ post.x # pre.x => post.vx = AwayFrom(Sign(post.x - pre.x), pre.vx)
            /\ post.x = pre.x => post.vx = pre.vx
            /\ post.y # pre.y => post.vy = AwayFrom(Sign(post.y - pre.y), pre.vy)
            /\ post.y = pre.y => post.vy = pre.vy

\* A ball overlapping the left edge of the obstacle while moving left, away
\* from it, has been resolved: it still moves left.
C7_Witness ==
    /\ call.fn = "checkRectCollision"
    /\ call.hit
    /\ call.post[1].x < call.pre[1].x
    /\ call.pre[1].vx < 0
    /\ call.post[1].vx < 0

\* C7: a ball resolved against a straight edge has the perpendicular velocity
\* component's sign flipped and its magnitude multiplied by bounceFactor (0
\* below stopVelocity); the other component is unchanged.
C7_SignFlipped ==
    call.fn \in {"checkRectCollision", "walls"} =>
        LET pre == call.pre[1]
            post == call.post[1]
        IN  /\ post.x # pre.x => post.vx = AwayFrom(-Sign(pre.vx), pre.vx)
            /\ post.x = pre.x => post.vx = pre.vx
            /\ post.y # pre.y => post.vy = AwayFrom(-Sign(pre.vy), pre.vy)
            /\ post.y = pre.y => post.vy = pre.vy

---------------------------------------------------------------------------
(* SpecMask: checkMaskCollision on one ball and one image mask.            *)

\* Alpha bytes around the threshold.
MaskAlphas == {0, 10, 11, 255}

\* An image marked data-ball-mask, 40 px square at (100, 100), whose bitmap is
\* 2 by 2 pixels with the alpha bytes a.
MaskImage(a) ==
    Element("mask", 100 * PX, 140 * PX, 100 * PX, 140 * PX, TRUE, 2, 2, a)

MaskPage(a) == Page(400 * PX, 300 * PX, 600 * PX, << MaskImage(a) >>)

\* Ball centres in px: clear of the image, touching it from outside, over
\* each pixel.
MaskXs == {80, 95, 110, 130, 145}

MaskYs == {85, 110, 130}

MaskVelocities == {<<0, 200>>, <<300, -100>>}

InitMask ==
    \E a \in [1..4 -> MaskAlphas], x \in MaskXs, y \in MaskYs, vel \in MaskVelocities :
        InFrame(2, MaskPage(AsSeq(a)),
                << [NewBall(0, x * PX, y * PX, vel[1], vel[2], 0, 0)
                      EXCEPT !.hasPrev = TRUE, !.prevX = x * PX - vel[1],
                             !.prevY = y * PX - vel[2]] >>)

MaskCall ==
    \E r \in {checkMaskCollision(balls[1], obstacleCache[1])} :
        Called("checkMaskCollision", << r.ball >>, r.hit)

NextMask == MaskCall

SpecMask == InitMask /\ [][NextMask]_vars

\* The ball's bounding square misses the obstacle's bounds.
BoundingMiss(b, obs) ==
    \/ b.x + ballRadius2 < obs.left
    \/ b.x - ballRadius2 > obs.right
    \/ b.y + ballRadius2 < obs.top
    \/ b.y - ballRadius2 > obs.bottom

\* The ball's centre is over the obstacle.
CentreOver(b, obs) ==
    /\ b.x >= obs.left /\ b.x <= obs.right
    /\ b.y >= obs.top /\ b.y <= obs.bottom

\* C8: checkMaskCollision returns false and leaves the ball as it was when the
\* alpha sampled under the ball's centre is at or below maskAlphaThreshold, and
\* when the ball's bounding square misses the obstacle's bounds.
C8_NoHitOnTransparentOrMiss ==
    call.fn = "checkMaskCollision" =>
        LET b == call.pre[1]
            obs == obstacleCache[1]
        IN  (\/ BoundingMiss(b, obs)
             \/ /\ CentreOver(b, obs)
                /\ AlphaAt(obs.mask, SampleX(b, obs), SampleY(b, obs)) <= maskAlphaThreshold)
            => (~call.hit /\ call.post = call.pre)

\* A ball whose centre is over a pixel of alpha exactly 10 has gone through
\* the call.
C8_Witness ==
    /\ call.fn = "checkMaskCollision"
    /\ CentreOver(call.pre[1], obstacleCache[1])
    /\ AlphaAt(obstacleCache[1].mask, SampleX(call.pre[1], obstacleCache[1]),
               SampleY(call.pre[1], obstacleCache[1])) = maskAlphaThreshold
    /\ ~call.hit

---------------------------------------------------------------------------
(* SpecReveal: the reveal-on-scroll block at the end of either script.     *)
(*                                                                         *)
(* reveal.pc is "start" before the block runs and "ready" after it;        *)
(* reducedMotion is matchMedia('(prefers-reduced-motion: reduce)').matches *)
(* at script start; intersecting is the set of data-reveal elements now    *)
(* intersecting the root; observed is the set of targets revealObserver    *)
(* observes; queued is the set of targets with an entry waiting to be      *)
(* delivered; revealed is the set of elements with the class 'revealed';   *)
(* acted records the targets a callback added the class to (observation    *)
(* only).                                                                  *)

\* The number of data-reveal elements of the page.
NumReveals == 3

Reveals == 1..NumReveals

InitReveal ==
    /\ \E v \in {1, 2} : ScriptLoaded(v, PairPage)
    /\ call = NoCall
    /\ contact = NoContact /\ scene = NoScene
    /\ \E rm \in BOOLEAN, vis \in SUBSET Reveals :
           reveal = [pc |-> "start", reducedMotion |-> rm, intersecting |-> vis,
                     observed |-> {}, queued |-> {}, revealed |-> {}, acted |-> {}]

\* The block runs: every element is observed, which queues a first entry for
\* each target, and then, under reduced motion, every element gets the class.
RevealScript ==
    /\ reveal.pc = "start"
    /\ reveal' = [reveal EXCEPT !.pc = "ready",
                                !.observed = Reveals,
                                !.queued = Reveals,
                                !.revealed = IF reveal.reducedMotion THEN Reveals ELSE {}]
    /\ UNCHANGED <<ballVars, call, contact, scene>>

\* The page scrolls and element el enters or leaves the root: an observed
\* target gets an entry queued.
RevealScroll(el) ==
    /\ reveal.pc = "ready"
    /\ reveal' = [reveal EXCEPT
                     !.intersecting = IF el \in @ THEN @ \ {el} ELSE @ \cup {el},
                     !.queued = IF el \in reveal.observed THEN @ \cup {el} ELSE @]
    /\ UNCHANGED <<ballVars, call, contact, scene>>

\* The observer callback, delivered the queued entries: each intersecting
\* target gets the class and is unobserved.
revealObserver ==
    /\ reveal.pc = "ready"
    /\ reveal.queued # {}
    /\ LET hits == reveal.queued \cap reveal.observed \cap reveal.intersecting
       IN  reveal' = [reveal EXCEPT !.queued = {},
                                    !.revealed = @ \cup hits,
                                    !.observed = @ \ hits,
                                    !.acted = @ \cup hits]
    /\ UNCHANGED <<ballVars, call, contact, scene>>

NextReveal == RevealScript \/ (\E el \in Reveals : RevealScroll(el)) \/ revealObserver

SpecReveal == InitReveal /\ [][NextReveal]_vars

\* C10: with the reduced-motion preference active at script start, every
\* data-reveal element has the class 'revealed' right after initialisation, and
\* afterwards no observer callback acts on any of them and none of them remains
\* registered with the observer.
C10_ReducedMotionNoObserver ==
    (reveal.pc = "ready" /\ reveal.reducedMotion) =>
        /\ reveal.revealed = Reveals
        /\ reveal.observed = {}
        /\ reveal.acted = {}

---------------------------------------------------------------------------
(* SpecRest: one ball, no further clicks, frames at a constant interval    *)
(* for ever.  The scripts read the clock only through differences of time  *)
(* stamps (and through tests for an unset stamp, 0), so the clock's origin *)
(* is moved forward by one frame interval after every frame: `now` stays   *)
(* put and every stored stamp grows one interval older.  The states of a   *)
(* ball that is never destroyed then recur, which makes the run a cycle.   *)

\* Display refresh intervals in ms: 240 Hz, 60 Hz, and a slow 25 Hz.
RestIntervals == {4, 17, 40}

\* Click points (client coordinates): above the block, and clear of it.
RestPoints == {<<200 * PX, 50 * PX>>, <<350 * PX, 50 * PX>>}

\* A set time stamp s seen from a clock origin d ms later (0 is unset).
Earlier(s, d) == IF s = 0 THEN 0 ELSE s - d

InitRest ==
    /\ \E v \in {1, 2}, d \in RestIntervals :
           ScriptLoaded(v, [FallPage(Block) EXCEPT !.refresh = d])
    /\ call = NoCall
    /\ reveal = NoReveal /\ contact = NoContact /\ scene = NoScene

RestClick ==
    \E p \in RestPoints :
        /\ nextId = 0
        /\ Click("hero", p[1], p[2], StraightDown)

\* The variables animateAll writes, after the call with result r made one
\* refresh interval after the previous frame, seen from the clock origin moved
\* by that interval.
RestStep(r) ==
    LET timers == removeTimers \o r.timers
    IN  [lastTime |-> now,
         balls |-> AsSeq([i \in 1..Len(r.balls) |->
                             [r.balls[i] EXCEPT
                                 !.restingStartTime = Earlier(@, env.refresh)]]),
         dom |-> IF variant = 1 THEN dom \ r.removed ELSE dom,
         removeTimers |-> AsSeq([k \in 1..Len(timers) |->
                                    [timers[k] EXCEPT !.due = @ - env.refresh]]),
         obstacleCache |-> r.obstacleCache,
         obstacleCacheTime |-> Earlier(r.obstacleCacheTime, env.refresh),
         maskCache |-> r.maskCache,
         rafPending |-> IF SomeActive(r.balls) THEN rafPending ELSE rafPending - 1,
         animating |-> IF SomeActive(r.balls) THEN animating ELSE FALSE,
         hist |-> [op |-> "frame", dt |-> r.deltaTime, evicted |-> {},
                   removed |-> r.removed, scheduled |-> SomeActive(r.balls)]]

\* A frame is pending for a non-empty collection.
RestFrameDue == rafPending > 0 /\ Len(balls) > 0

\* The result of animateAll called one refresh interval after the previous frame.
RestCall ==
    animateAll(variant, balls, lastTime, now + env.refresh, obstacleCache,
               obstacleCacheTime, maskCache, env, 0, 0)

RestFrame ==
    /\ RestFrameDue
    /\ \E a \in {RestCall} : \E r \in {RestStep(a)} :
           /\ lastTime' = r.lastTime
           /\ balls' = r.balls
           /\ dom' = r.dom
           /\ removeTimers' = r.removeTimers
           /\ obstacleCache' = r.obstacleCache
           /\ obstacleCacheTime' = r.obstacleCacheTime
           /\ maskCache' = r.maskCache
           /\ rafPending' = r.rafPending
           /\ animating' = r.animating
           /\ hist' = r.hist
    /\ UNCHANGED <<variant, now, nextId, env, call, reveal, contact, scene>>

\* ENABLED <<RestFrame>>_vars: a frame is due and changes something.
RestFrameMoves ==
    /\ RestFrameDue
    /\ \E a \in {RestCall} : \E r \in {RestStep(a)} :
           <<lastTime, balls, dom, removeTimers, obstacleCache, obstacleCacheTime,
             maskCache, rafPending, animating, hist>>
           # <<r.lastTime, r.balls, r.dom, r.removeTimers, r.obstacleCache,
               r.obstacleCacheTime, r.maskCache, r.rafPending, r.animating, r.hist>>

RestTimer == RemoveTimerFire

NextRest == RestClick \/ RestFrame \/ RestTimer

\* requestAnimationFrame runs a pending callback and setTimeout a pending
\* timer: WF_vars(RestFrame), written with its enabling condition spelled out,
\* and WF_vars(RestTimer).
SpecRest ==
    /\ InitRest
    /\ [][NextRest]_vars
    /\ ([]<>(~RestFrameMoves) \/ []<><<RestFrame>>_vars)
    /\ WF_vars(RestTimer)

\* C11: with no further clicks every tracked ball is eventually destroyed, so
\* the collection becomes empty and the loop stops, at any constant frame
\* interval.
C11_EventuallyEmpty == (Len(balls) > 0) ~> (Len(balls) = 0 /\ ~animating)

---------------------------------------------------------------------------
(* Ball elements in the document (checked under SpecCap).                  *)

\* The ids of the elements a pending timer will detach.
Fading == {removeTimers[k].id : k \in 1..Len(removeTimers)}

---------------------------------------------------------------------------
(* The hero click handler (checked under SpecCap).                         *)

\* C13: a hero click on, or inside, a link or button leaves the collection,
\* the attached ball elements and the animating flag unchanged and schedules no
\* frame; every other hero click appends exactly one new active ball, whose
\* element is attached, after the balls it kept (the newest of the old ones).
C13_ClickSpawnsOneOrNothing ==
    [][/\ hist'.op = "click-ignored" =>
              /\ UNCHANGED <<balls, dom, animating, rafPending, nextId>>
              /\ ~hist'.scheduled
       /\ nextId' # nextId =>
              /\ hist'.op = "click"
              /\ Len(balls') >= 1
              /\ balls'[Len(balls')].active
              /\ balls'[Len(balls')].id \notin Ids(balls)
              /\ balls'[Len(balls')].id \in dom'
              /\ Len(balls') - 1 <= Len(balls)
              /\ \A i \in 1..(Len(balls') - 1) :
                     balls'[i] = balls[i + Len(balls) + 1 - Len(balls')]]_vars

\* A click on a link has been ignored while balls were in flight.
C13_Witness ==
    /\ hist.op = "click-ignored"
    /\ Len(balls) > 0
    /\ animating

---------------------------------------------------------------------------
(* SpecForm: the submit handler of #contactForm (variant 2 only).  The     *)
(* handler is an async function: its part before the await runs in the     *)
(* submit event, its continuation when the fetch settles, and the reset of *)
(* the success path in a timer 3000 ms later.  inflight holds the body of  *)
(* every fetch that has not settled, timers counts the pending reset       *)
(* timers, alerts the alerts shown, last names the step that ran last.     *)

\* The number of submit events of a run.
MaxSubmits == 3

\* What the visitor has typed into the fields; "" is their default value.
FormTexts == {"", "hello", "hi there"}

FormOutcomes == {"ok", "not ok", "rejected"}

InitForm ==
    /\ ScriptLoaded(2, PairPage)
    /\ call = NoCall
    /\ reveal = NoReveal
    /\ contact = [NoContact EXCEPT !.present = TRUE]
    /\ scene = NoScene

\* The visitor edits the fields.
FormInput(text) ==
    /\ contact.present
    /\ contact.fields # text
    /\ contact' = [contact EXCEPT !.fields = text, !.last = "input"]
    /\ UNCHANGED <<ballVars, call, reveal, scene>>

\* The handler up to the await: the button shows the sending state and the
\* fetch is started with the fields as its body.
FormSubmit ==
    /\ contact.present
    /\ contact.submits < MaxSubmits
    /\ contact' = [contact EXCEPT !.sending = TRUE,
                                  !.disabled = TRUE,
                                  !.inflight = Append(@, contact.fields),
                                  !.submits = @ + 1,
                                  !.last = "submit"]
    /\ UNCHANGED <<ballVars, call, reveal, scene>>

\* The try block after the await with response.ok: the success state, and the
\* reset timer is set.
FormSucceeded(c) ==
    [c EXCEPT !.sending = FALSE, !.success = TRUE, !.timers = @ + 1, !.last = "ok"]

\* The catch block, less the button: a variant that leaves it disabled.
FormFailedDisabled(c) ==
    [c EXCEPT !.sending = FALSE, !.alerts = @ + 1, !.last = "failed"]

\* The catch block: the button is reset and the alert shown.
FormFailed(c) ==
    [c EXCEPT !.sending = FALSE, !.disabled = FALSE, !.alerts = @ + 1,
              !.last = "failed"]

\* The k-th pending fetch settles and the handler continues: a rejection and a
\* response that is not ok both end in the catch block.
FormSettle(k, outcome) ==
    /\ k \in 1..Len(contact.inflight)
    /\ LET rest == [contact EXCEPT
                       !.inflight = SubSeq(@, 1, k - 1) \o SubSeq(@, k + 1, Len(@))]
       IN  contact' = IF outcome = "ok" THEN FormSucceeded(rest) ELSE FormFailed(rest)
    /\ UNCHANGED <<ballVars, call, reveal, scene>>

\* The reset timer of a successful submission.
FormReset ==
    /\ contact.timers > 0
    /\ contact' = [contact EXCEPT !.fields = "", !.success = FALSE,
                                  !.disabled = FALSE, !.timers = @ - 1,
                                  !.last = "reset"]
    /\ UNCHANGED <<ballVars, call, reveal, scene>>

FormSettles == \E k \in 1..MaxSubmits, outcome \in FormOutcomes : FormSettle(k, outcome)

NextForm ==
    \/ \E text \in FormTexts : FormInput(text)
    \/ FormSubmit
    \/ FormSettles
    \/ FormReset

\* Timers fire; a fetch is not assumed to settle.
SpecForm == InitForm /\ [][NextForm]_vars /\ WF_vars(FormReset)

\* C14: a submission that fails (rejected fetch or response not ok) ends with
\* the button not sending and enabled and one more alert shown, with the fields
\* as they were, no success class added and no reset timer set; and after an
\* outcome of either kind the button is eventually enabled.
C14_FailureResetsButton ==
    /\ [][contact'.last = "failed" =>
              /\ ~contact'.sending
              /\ ~contact'.disabled
              /\ contact'.alerts = contact.alerts + 1
              /\ contact'.fields = contact.fields
              /\ contact'.success = contact.success
              /\ contact'.timers = contact.timers]_vars
    /\ (contact.last \in {"ok", "failed"}) ~> ~contact.disabled

\* The second submit event, of filled-in fields, has failed.
C14_Witness ==
    /\ contact.last = "failed"
    /\ contact.fields # ""
    /\ contact.alerts = 1
    /\ contact.submits = 2
    /\ ~contact.disabled

---------------------------------------------------------------------------
(* The frame clock of animateAll.                                          *)

\* C15: whenever the loop is stopped (animating is false) lastTime is 0, so
\* the first step after the next spawn runs with a time delta of 0.
C15_StoppedMeansReset == ~animating => lastTime = 0

\* C16: every step that performs physics computes the time delta
\* min((currentTime - lastTime) / 16.67, 2), where a lastTime of 0 has first
\* been replaced by currentTime; the delta lies in [0, 2], and after the step
\* lastTime is the step's currentTime.  (The delta is in 1/1000, rounded down.)
C16_DeltaIsCappedRatio ==
    [][hist'.op = "frame" =>
           LET elapsed == IF lastTime = 0 THEN 0 ELSE now' - lastTime
               dt == hist'.dt
           IN  /\ dt >= 0 /\ dt <= 2 * DTU
               /\ elapsed * 100 >= 2 * 1667 => dt = 2 * DTU
               /\ elapsed * 100 < 2 * 1667 =>
                      /\ dt * 1667 <= elapsed * 100 * DTU
                      /\ elapsed * 100 * DTU < (dt + 1) * 1667
               /\ lastTime' = now']_vars

\* A step 40 ms after the previous one has run with the capped delta 2.
C16_Witness ==
    /\ hist.op = "frame"
    /\ hist.dt = 2 * DTU
    /\ env.refresh = 40
    /\ lastTime = now
    /\ Len(balls) > 0

---------------------------------------------------------------------------
(* The tie of checkRectCollision (checked under SpecEdge).                 *)

\* The smaller of the two X penetrations equals the smaller of the two Y
\* penetrations of ball b into the rectangle obs.
RectTie(b, obs) ==
    LET r == ballRadius(variant)
    IN  Min(b.x + r - obs.left, obs.right - (b.x - r))
            = Min(b.y + r - obs.top, obs.bottom - (b.y - r))

\* C17 (amended): when the minimum X penetration equals the minimum Y
\* penetration, checkRectCollision resolves along the Y axis: the ball is put
\* on the nearer of the top and bottom edges, its vy is set, and its x and vx
\* are left unchanged.
C17_TieResolvesAlongY ==
    (call.fn = "checkRectCollision" /\ call.hit /\ RectTie(call.pre[1], obstacleCache[1])) =>
        LET pre == call.pre[1]
            post == call.post[1]
            r == ballRadius(variant)
        IN  /\ post.x = pre.x
            /\ post.vx = pre.vx
            /\ post.y \in {obstacleCache[1].top - r, obstacleCache[1].bottom + r}
            /\ post.y # pre.y
            /\ post.vy = AwayFrom(Sign(post.y - pre.y), pre.vy)

\* A ball overlapping the top left corner by the same amount on both axes,
\* moving right and down, has been resolved.
C17_Witness ==
    /\ call.fn = "checkRectCollision"
    /\ call.hit
    /\ RectTie(call.pre[1], obstacleCache[1])
    /\ call.pre[1].vx > 0
    /\ call.pre[1].vy > 0
    /\ call.post[1].y < call.pre[1].y

\* C17: when the minimum X penetration equals the minimum Y penetration,
\* checkRectCollision resolves along the X axis: the ball's x and vx are changed
\* and its y and vy are left unchanged.
C17_TieResolvesAlongX ==
    (call.fn = "checkRectCollision" /\ call.hit /\ RectTie(call.pre[1], obstacleCache[1])) =>
        /\ call.post[1].y = call.pre[1].y
        /\ call.post[1].vy = call.pre[1].vy
        /\ call.post[1].x # call.pre[1].x

---------------------------------------------------------------------------
(* A hit of checkMaskCollision (checked under SpecMask).                   *)

\* Rounding allowance of the fixed-point reflection, in 1/100 px per frame.
MaskTolerance == 2

\* The opacity differences (nx, ny) before normalisation around the pixel under
\* the centre of ball b.
MaskGradient(b, obs) ==
    LET sx == SampleX(b, obs)
        sy == SampleY(b, obs)
    IN  << sampleOpaque(obs.mask, sx, sy, 1, 0) - sampleOpaque(obs.mask, sx, sy, -1, 0),
           sampleOpaque(obs.mask, sx, sy, 0, 1) - sampleOpaque(obs.mask, sx, sy, 0, -1) >>

\* v - 2 (v . n) n for the unit normal along g, an axis or a diagonal, and for
\* the flat gradient, where n is the direction of v.
Mirrored(vx, vy, g) ==
    IF g[1] = 0 /\ g[2] = 0 THEN << -vx, -vy >>
    ELSE IF g[2] = 0 THEN << -vx, vy >>
    ELSE IF g[1] = 0 THEN << vx, -vy >>
    ELSE IF g[1] = g[2] THEN << -vy, -vx >>
    ELSE << vy, vx >>

\* C18: when checkMaskCollision reports a hit the ball is back at the position
\* recorded at the start of the step (prevX, prevY), and its velocity is the
\* mirror reflection of the velocity it came with about the opacity gradient
\* (about its own direction when the gradient is flat) times bounceFactor.
C18_HitRollsBackAndReflects ==
    (call.fn = "checkMaskCollision" /\ call.hit) =>
        LET pre == call.pre[1]
            post == call.post[1]
            m == Mirrored(pre.vx, pre.vy, MaskGradient(pre, obstacleCache[1]))
        IN  /\ post.x = pre.prevX
            /\ post.y = pre.prevY
            /\ Abs(post.vx * 100 - m[1] * bounceFactor2) <= MaskTolerance * 100
            /\ Abs(post.vy * 100 - m[2] * bounceFactor2) <= MaskTolerance * 100

\* A hit on a diagonal opacity edge by a ball that came from elsewhere.
C18_Witness ==
    /\ call.fn = "checkMaskCollision"
    /\ call.hit
    /\ MaskGradient(call.pre[1], obstacleCache[1]) = << 1, 1 >>
    /\ call.pre[1].prevX # call.pre[1].x
    /\ call.post[1].x = call.pre[1].prevX

---------------------------------------------------------------------------
(* SpecCache: variant 2 on a page with a heading obstacle and an image     *)
(* mask, while the page scrolls and the image loads or is replaced.  A     *)
(* ball spawned while the page is scrolled down is dropped by its first    *)
(* step, which stops the loop; the next click restarts it.  The interval   *)
(* before a step is the time since the previous step or, after a restart,  *)
(* since the loop stopped.                                                 *)

MaxCacheSpawns == 3

\* The latest frame time stamp, in ms after StartTime.
MaxCacheTime == 160

\* Time between frame callbacks, in ms.
CacheIntervals == {20, 50, 120}

\* A script start so soon after the time origin that a click and its first
\* frames come within obstacleCacheDuration of it, in ms.
EarlyStart == 40

\* Alpha channels of the two 2 by 2 bitmaps the image shows.
CacheBitmaps == {<<255, 0, 0, 255>>, <<0, 255, 255, 0>>}

CachePage(loaded, a) ==
    Page(400 * PX, 300 * PX, 1200 * PX,
         << Heading,
            Element("mask", 320 * PX, 360 * PX, 200 * PX, 240 * PX, loaded, 2, 2, a) >>)

\* The script has run EarlyStart ms after the time origin of the frame time
\* stamps (the start of the navigation), or StartTime ms after it.
InitCache ==
    /\ \E loaded \in BOOLEAN, a \in CacheBitmaps, t \in {EarlyStart, StartTime} :
           ScriptLoadedAt(2, CachePage(loaded, a), t)
    /\ call = NoCall
    /\ reveal = NoReveal /\ contact = NoContact /\ scene = NoScene

CacheClick ==
    /\ nextId < MaxCacheSpawns
    /\ Click("hero", 200 * PX, 50 * PX, StraightDown)

CacheFrame ==
    \E d \in CacheIntervals :
        /\ \/ now + d <= EarlyStart + MaxCacheTime
           \/ now >= StartTime /\ now + d <= StartTime + MaxCacheTime
        /\ Frame(now + d, 0, 0)

\* The page is scrolled down by 600 px, or back to the top.
CacheScroll ==
    /\ env' = [env EXCEPT !.scrollY = IF @ = 0 THEN 600 * PX ELSE 0]
    /\ UNCHANGED <<variant, balls, dom, removeTimers, animating, rafPending, lastTime,
                   now, nextId, obstacleCache, obstacleCacheTime, hist, maskCache,
                   call, reveal, contact, scene>>

\* The image finishes loading, or its source is replaced by a bitmap a that is
\* loaded (from the browser's cache) or still loading.
CacheImage ==
    \E loaded \in BOOLEAN, a \in CacheBitmaps :
        /\ <<loaded, a>> # <<env.elems[2].complete, env.elems[2].alphas>>
        /\ \/ a # env.elems[2].alphas
           \/ loaded
        /\ env' = [env EXCEPT !.elems[2].complete = loaded, !.elems[2].alphas = a]
        /\ UNCHANGED <<variant, balls, dom, removeTimers, animating, rafPending,
                       lastTime, now, nextId, obstacleCache, obstacleCacheTime, hist,
                       maskCache, call, reveal, contact, scene>>

NextCache == CacheClick \/ CacheFrame \/ CacheScroll \/ CacheImage \/ RemoveTimerFire

SpecCache == InitCache /\ [][NextCache]_vars

\* The image element el is loaded and has a bitmap.
ImageReady(el) == el.complete /\ el.naturalWidth # 0 /\ el.naturalHeight # 0

\* The mask m holds the size and the alpha channel of the bitmap of el.
RasterOf(m, el) ==
    /\ m.width = el.naturalWidth
    /\ m.height = el.naturalHeight
    /\ Len(m.data) = 4 * Len(el.alphas)
    /\ \A i \in 1..Len(el.alphas) : m.data[4 * i] = el.alphas[i]

\* The masks of the mask obstacles in the list obstacles.
MasksUsed(obstacles) ==
    {obstacles[i].mask : i \in {j \in 1..Len(obstacles) : obstacles[j].type = "mask"}}

\* C19: an image is rasterized at most once: a cached mask is never replaced,
\* and every later query returns it, whatever the image shows by then; a mask is
\* cached only by a query that finds the image loaded, and is then the raster
\* of the image at that moment; a query that finds the image not loaded and
\* nothing cached yields no mask obstacle and caches nothing.
C19_RasterizedOnce ==
    [][\A k \in 1..Len(env.elems) :
           LET el == env.elems[k]
               queried == now' # now /\ hist'.op = "frame" /\ obstacleCacheTime' = now'
           IN  /\ maskCache[k] # NoMask => maskCache'[k] = maskCache[k]
               /\ maskCache'[k] # maskCache[k] =>
                      /\ queried
                      /\ ImageReady(el)
                      /\ RasterOf(maskCache'[k], el)
               /\ (queried /\ el.kind = "mask") =>
                      /\ maskCache[k] # NoMask => MasksUsed(obstacleCache') = {maskCache[k]}
                      /\ (maskCache[k] = NoMask /\ ~ImageReady(el)) =>
                             /\ maskCache'[k] = NoMask
                             /\ MasksUsed(obstacleCache') = {}
                      /\ (maskCache[k] = NoMask /\ ImageReady(el)) =>
                             /\ maskCache'[k] # NoMask
                             /\ MasksUsed(obstacleCache') = {maskCache'[k]}]_vars

\* A query has returned the cached mask of an image that shows another bitmap
\* by now.
C19_Witness ==
    /\ hist.op = "frame"
    /\ obstacleCacheTime = now
    /\ maskCache[2] # NoMask
    /\ ~RasterOf(maskCache[2], env.elems[2])
    /\ MasksUsed(obstacleCache) = {maskCache[2]}

\* C20: a step of variant 2 queries the document for the obstacles if and only
\* if more than obstacleCacheDuration ms of frame time have passed since the
\* last query, and otherwise keeps the list it has; so the list a step uses
\* comes from a query made at most obstacleCacheDuration ms before the step,
\* also when the loop has stopped and restarted in between.  (obstacleCacheTime
\* is 0 until the first query.)
C20_ListAtMostDurationOld ==
    [][(now' # now /\ hist'.op = "frame") =>
           LET expired == now' - obstacleCacheTime > obstacleCacheDuration
           IN  /\ expired =>
                      /\ obstacleCacheTime' = now'
                      /\ obstacleCache' = getObstacles(2, env, maskCache).obstacles
               /\ ~expired => UNCHANGED <<obstacleCache, obstacleCacheTime, maskCache>>
               /\ obstacleCacheTime' # 0
               /\ now' - obstacleCacheTime' <= obstacleCacheDuration]_vars

---------------------------------------------------------------------------
(* The bounds at the end of a step (checked under SpecFall).               *)

\* C21: at the end of every animateAll step every ball still tracked lies
\* within the walls, ballRadius <= x <= width - ballRadius, and below the
\* ceiling, y >= ceiling + ballRadius, where the ceiling is the scroll offset in
\* variant 1 and 0 in variant 2; in variant 2 it also lies above the floor,
\* y <= viewport height - ballRadius.
C21_WithinBoundsAfterStep ==
    hist.op = "frame" =>
        \A i \in 1..Len(balls) :
            LET b == balls[i]
                r == ballRadius(variant)
            IN  /\ r <= b.x /\ b.x <= env.width - r
                /\ b.y >= (IF variant = 1 THEN env.scrollY ELSE 0) + r
                /\ variant = 2 => b.y <= env.viewHeight - r

\* A step of variant 2 has left one ball put back against the right wall and
\* one ball put back on the floor.
C21_Witness ==
    /\ hist.op = "frame"
    /\ variant = 2
    /\ \E i \in 1..Len(balls) : balls[i].x = env.width - ballRadius2 /\ balls[i].vx < 0
    /\ \E i \in 1..Len(balls) : balls[i].y = env.viewHeight - ballRadius2

---------------------------------------------------------------------------
(* The position of a new ball (checked under SpecCap, whose clicks are at a *)
(* point of the viewport, with the page at the top or scrolled down).       *)

\* C22: the ball a hero click creates starts at the click point in the
\* coordinate space the variant's obstacles and bounds use, so after a click at
\* a visible point it lies within the simulated extent: between the scroll
\* offset and the scroll offset plus the viewport height in variant 1, between
\* 0 and the viewport height in variant 2, for every scroll offset.
C22_SpawnInsideExtent ==
    (hist.op = "click" /\ Len(balls) > 0) =>
        LET b == balls[Len(balls)]
            ceiling == IF variant = 1 THEN env.scrollY ELSE 0
        IN  /\ 0 <= b.x /\ b.x <= env.width
            /\ ceiling <= b.y /\ b.y <= ceiling + env.viewHeight

---------------------------------------------------------------------------
(* The loop control of animateAll (checked under SpecCap).                 *)

\* C23: under any interleaving of hero clicks and frame callbacks at most one
\* animateAll callback is pending, animating is true exactly when one is
\* pending, and animateAll is never entered with an empty collection.
C23_OnePendingFrame ==
    /\ rafPending <= 1
    /\ animating <=> rafPending = 1
    /\ hist.op # "frame-empty"

\* The loop has stopped after dropping its only ball, and a later click has
\* started it again.
C23_Witness ==
    /\ hist.op = "click"
    /\ nextId >= 2
    /\ Len(balls) = 1
    /\ animating
    /\ rafPending = 1
    /\ lastTime # 0

---------------------------------------------------------------------------
(* The splice loop of animateAll (checked under SpecCache).                *)

\* C24: between callbacks every tracked ball is active: a step splices the
\* balls it has marked inactive out of the collection before it returns, and
\* the balls that remain keep their order.
C24_OnlyActiveInOrder ==
    /\ [](\A i \in 1..Len(balls) : balls[i].active)
    /\ [][(now' # now /\ hist'.op = "frame") =>
              /\ Len(balls') = Cardinality(Ids(balls) \ hist'.removed)
              /\ \A i \in 1..Len(balls') :
                     /\ balls'[i].id \in Ids(balls)
                     /\ \A j \in 1..(i - 1) : balls'[j].id < balls'[i].id]_vars

\* A step has dropped the second of three balls and kept the first and third.
C24_Witness ==
    /\ hist.op = "frame"
    /\ hist.removed = {2}
    /\ Len(balls) = 2
    /\ balls[1].id = 1
    /\ balls[2].id = 3

---------------------------------------------------------------------------
(* SpecScene: the scroll throttle of project.js.  scene.pending counts the *)
(* frame callbacks requested by onScroll that have not run, scene.scrollY  *)
(* is window.scrollY, scene.seen the window.scrollY the last run of        *)
(* updateSceneAnimations read, scene.unseen whether a scroll event has      *)
(* come since that run, scene.scrolls the number of scroll events so far.   *)

MaxScrolls == 6

\* Scroll offsets of the project page, in px.
SceneOffsets == {0, 200, 400, 600}

\* updateSceneAnimations(): every scene is given its progress at the current
\* scroll offset.
updateSceneAnimations(sc) == [sc EXCEPT !.seen = sc.scrollY, !.unseen = FALSE]

\* A frame callback that leaves the flag set.
SceneCallbackStuck(sc) == [updateSceneAnimations(sc) EXCEPT !.pending = @ - 1]

\* The frame callback of onScroll: the update, then ticking = false.
SceneCallback(sc) ==
    [updateSceneAnimations(sc) EXCEPT !.ticking = FALSE, !.pending = @ - 1]

\* onScroll(): a frame is requested unless one is.
onScroll(sc) ==
    IF ~sc.ticking THEN [sc EXCEPT !.pending = @ + 1, !.ticking = TRUE] ELSE sc

\* The script has run: the listeners are registered and the initial update
\* has been made.
InitScene ==
    /\ ScriptLoaded(2, PairPage)
    /\ call = NoCall
    /\ reveal = NoReveal
    /\ contact = NoContact
    /\ \E y \in SceneOffsets :
           scene = [NoScene EXCEPT !.loaded = TRUE, !.scrollY = y, !.seen = y]

\* The window scrolls to offset y and the scroll event is delivered.
SceneScroll(y) ==
    /\ scene.loaded
    /\ scene.scrolls < MaxScrolls
    /\ y # scene.scrollY
    /\ scene' = onScroll([scene EXCEPT !.scrollY = y, !.unseen = TRUE,
                                       !.scrolls = @ + 1])
    /\ UNCHANGED <<ballVars, call, reveal, contact>>

\* A requested frame callback runs.
SceneFrame ==
    /\ scene.pending > 0
    /\ scene' = SceneCallback(scene)
    /\ UNCHANGED <<ballVars, call, reveal, contact>>

\* The window is resized: the listener is updateSceneAnimations itself.
SceneResize ==
    /\ scene.loaded
    /\ scene' = updateSceneAnimations(scene)
    /\ UNCHANGED <<ballVars, call, reveal, contact>>

NextScene == (\E y \in SceneOffsets : SceneScroll(y)) \/ SceneFrame \/ SceneResize

\* A requested frame callback is run by the browser.
SpecScene == InitScene /\ [][NextScene]_vars /\ WF_vars(SceneFrame)

\* C25: under any sequence of scroll events and frame callbacks at most one
\* scene-update callback is pending, ticking is true exactly while one is
\* pending, and every scroll event is followed by a scene update, which reads
\* the scroll offset of that event or a later one.
C25_ThrottledButNeverLost ==
    /\ [](scene.pending <= 1)
    /\ [](scene.ticking <=> scene.pending = 1)
    /\ [](scene.unseen => scene.pending = 1)
    /\ [](~scene.unseen => scene.seen = scene.scrollY)
    /\ (scene.unseen ~> ~scene.unseen)

\* After three scroll events no callback is pending, and the last update has
\* read the offset of the last one.
C25_Witness ==
    /\ scene.scrolls = 3
    /\ scene.pending = 0
    /\ ~scene.ticking
    /\ ~scene.unseen
    /\ scene.seen = 600
    /\ scene.seen = scene.scrollY

---------------------------------------------------------------------------
(* The result of checkRectCollision (checked under SpecEdge).              *)

\* C26: when checkRectCollision returns true the ball's bounding square no
\* longer overlaps the interior of the rectangle and lies flush against
\* exactly one of its four edges, and of the ball's position and velocity only
\* the components of one axis, the resolved one, differ from what they were;
\* when it returns false the position and the velocity are unchanged.
C26_FlushAgainstOneEdge ==
    call.fn = "checkRectCollision" =>
        LET pre == call.pre[1]
            post == call.post[1]
            obs == obstacleCache[1]
            r == ballRadius(variant)
            flush == {e \in {"left", "right", "top", "bottom"} :
                         \/ e = "left" /\ post.x + r = obs.left
                         \/ e = "right" /\ post.x - r = obs.right
                         \/ e = "top" /\ post.y + r = obs.top
                         \/ e = "bottom" /\ post.y - r = obs.bottom}
        IN  /\ call.hit =>
                   /\ ~(/\ post.x + r > obs.left /\ post.x - r < obs.right
                        /\ post.y + r > obs.top /\ post.y - r < obs.bottom)
                   /\ Cardinality(flush) = 1
                   /\ (post.x # pre.x) # (post.y # pre.y)
                   /\ post.x = pre.x => post.vx = pre.vx
                   /\ post.y = pre.y => post.vy = pre.vy
            /\ ~call.hit =>
                   /\ post.x = pre.x /\ post.y = pre.y
                   /\ post.vx = pre.vx /\ post.vy = pre.vy

\* A ball overlapping the obstacle from below has been put flush under its
\* bottom edge, moving down.
C26_Witness ==
    /\ call.fn = "checkRectCollision"
    /\ call.hit
    /\ call.post[1].y - ballRadius(variant) = obstacleCache[1].bottom
    /\ call.post[1].y > call.pre[1].y
    /\ call.pre[1].vy < 0
    /\ call.post[1].vy > 0
    /\ call.post[1].vx = call.pre[1].vx

====
